---- MODULE Spec2Model ----
(***************************************************************************)
(* export_tarball.py: the filtering tar writer (MyTarFile.add and          *)
(* MyTarFile.__filter) and the driver (main), as a state machine.          *)
(*                                                                         *)
(* Paths are strings, as in the program; the string operators below have   *)
(* the meaning of the Python operations the program applies to them.       *)
(***************************************************************************)
EXTENDS Integers, Sequences, FiniteSets

(***************************************************************************)
(* Python str operations                                                   *)
(***************************************************************************)

\* s[i:] for a 1-based i
From(s, i) == SubSeq(s, i, Len(s))

\* s.startswith(p)
StartsWith(s, p) == Len(p) <= Len(s) /\ SubSeq(s, 1, Len(p)) = p

\* s.endswith(p)
EndsWith(s, p) == Len(p) <= Len(s) /\ SubSeq(s, Len(s) - Len(p) + 1, Len(s)) = p

\* p in s (substring test)
Contains(s, p) == \E i \in 1..(Len(s) - Len(p) + 1) : SubSeq(s, i, i + Len(p) - 1) = p

\* s.rfind('/') + 1, as a 1-based count of the characters up to the last '/'
RECURSIVE RFindSlash(_, _)
RFindSlash(s, i) ==
  IF i = 0 THEN 0
  ELSE IF SubSeq(s, i, i) = "/" THEN i ELSE RFindSlash(s, i - 1)

\* s.rstrip('/')
RECURSIVE RStripSlash(_)
RStripSlash(s) ==
  IF Len(s) > 0 /\ SubSeq(s, Len(s), Len(s)) = "/"
  THEN RStripSlash(SubSeq(s, 1, Len(s) - 1))
  ELSE s

\* posixpath.split(p): <<head, tail>>
PathSplit(p) ==
  LET i == RFindSlash(p, Len(p))
      head == SubSeq(p, 1, i)
      tail == From(p, i + 1)
  IN  <<IF RStripSlash(head) = "" THEN head ELSE RStripSlash(head), tail>>

\* posixpath.basename(p)
PathBasename(p) == From(p, RFindSlash(p, Len(p)) + 1)

\* posixpath.join(a, b)
PathJoin(a, b) ==
  IF StartsWith(b, "/") THEN b
  ELSE IF a = "" \/ EndsWith(a, "/") THEN a \o b
  ELSE a \o "/" \o b

\* the non-empty '/'-separated components of p, in order
RECURSIVE Components(_)
Components(p) ==
  IF p = "" THEN <<>>
  ELSE LET i == CHOOSE k \in 1..(Len(p) + 1) :
                  /\ (k = Len(p) + 1 \/ SubSeq(p, k, k) = "/")
                  /\ \A j \in 1..(k - 1) : SubSeq(p, j, j) # "/"
           first == SubSeq(p, 1, i - 1)
           rest == Components(From(p, i + 1))
       IN  IF first = "" THEN rest ELSE <<first>> \o rest

\* '/'.join(parts)
RECURSIVE JoinSlash(_)
JoinSlash(parts) ==
  IF parts = <<>> THEN ""
  ELSE IF Len(parts) = 1 THEN parts[1]
  ELSE parts[1] \o "/" \o JoinSlash(Tail(parts))

\* length of the common prefix of two component lists
RECURSIVE CommonLen(_, _)
CommonLen(a, b) ==
  IF a = <<>> \/ b = <<>> \/ Head(a) # Head(b) THEN 0
  ELSE 1 + CommonLen(Tail(a), Tail(b))

\* posixpath.relpath(path, start) for absolute paths without '.' and '..'
\* components (the only ones the program forms)
RelPath(path, start) ==
  LET pl == Components(path)
      sl == Components(start)
      i == CommonLen(sl, pl)
      ups == [k \in 1..(Len(sl) - i) |-> ".."]
      parts == ups \o SubSeq(pl, i + 1, Len(pl))
  IN  IF parts = <<>> THEN "." ELSE JoinSlash(parts)

(***************************************************************************)
(* The exclusion rule sets                                                 *)
(***************************************************************************)

nonessential_dirs == {
  "third_party/blink/tools",
  "third_party/blink/web_tests",
  "third_party/hunspell_dictionaries",
  "third_party/hunspell/tests",
  "third_party/jdk/current",
  "third_party/jdk/extras",
  "third_party/liblouis/src/tests/braille-specs",
  "third_party/xdg-utils/tests",
  "v8/test",
  "android_webview",
  "build/linux/debian_bullseye_amd64-sysroot",
  "build/linux/debian_bullseye_i386-sysroot",
  "buildtools/reclient",
  "chrome/android",
  "chromecast",
  "ios",
  "native_client",
  "native_client_sdk",
  "third_party/android_platform",
  "third_party/angle/third_party/VK-GL-CTS",
  "third_party/apache-linux",
  "third_party/catapult/third_party/vinn/third_party/v8",
  "third_party/closure_compiler",
  "third_party/instrumented_libs",
  "third_party/llvm",
  "third_party/llvm-build",
  "third_party/llvm-build-tools",
  "third_party/node/linux",
  "third_party/rust-src",
  "third_party/rust-toolchain",
  "third_party/webgl" }

ESSENTIAL_FILES == {
  "chrome/test/data/webui/i18n_process_css_test.html",
  "chrome/test/data/webui/mojo/foobar.mojom",
  "v8/test/torque/test-torque.tq" }

ESSENTIAL_GIT_DIRS == { "third_party/rust-src/" }

TEST_DIRS == <<
  "base/tracing/test/data",
  "chrome/test/data",
  "components/test/data",
  "content/test/data/accessibility",
  "content/test/data/gpu",
  "content/test/data/media",
  "courgette/testdata",
  "extensions/test/data",
  "media/test/data",
  "native_client/src/trusted/service_runtime/testdata",
  "testing/libfuzzer/fuzzers/wasm_corpus",
  "third_party/blink/perf_tests",
  "third_party/breakpad/breakpad/src/processor/testdata",
  "third_party/catapult/tracing/test_data",
  "third_party/dawn/test",
  "third_party/expat/src/testdata",
  "third_party/harfbuzz-ng/src/test",
  "third_party/llvm/llvm/test",
  "third_party/ots/src/tests/fonts",
  "third_party/rust-src/src/gcc/gcc/testsuite",
  "third_party/rust-src/src/llvm-project/clang/test",
  "third_party/rust-src/src/llvm-project/llvm/test",
  "third_party/screen-ai/linux/resources",
  "third_party/sqlite/src/test",
  "third_party/swiftshader/tests/regres",
  "third_party/test_fonts/test_fonts",
  "tools/perf/testdata" >>

\* set(TEST_DIRS)
TestDirSet == { TEST_DIRS[i] : i \in 1..Len(TEST_DIRS) }

\* stat.S_IWUSR
S_IWUSR == 128

\* mode | stat.S_IWUSR
OrWUSR(mode) == IF (mode \div S_IWUSR) % 2 = 1 THEN mode ELSE mode + S_IWUSR

(***************************************************************************)
(* The pattern \.(gn|gni|grd|grdp|isolate|pydeps)(\.\S+)?$ under re.search *)
(***************************************************************************)

KeepExtensions == { "gn", "gni", "grd", "grdp", "isolate", "pydeps" }

\* the characters that are not \S, which are those of str.isspace(): space,
\* \t, \n, \r, \f, U+000B, U+001C to U+001F, U+0085, U+00A0 and, of the
\* spaces beyond U+00FF, the one a string of this module can hold, U+1680
Whitespace ==
  { " ", "\t", "\n", "\r", "\f", "", "", "", "", "", "", " ", " " }

\* '$' matches at the end of the string and before a final newline
AtEnd(r) == r = "" \/ r = "\n"

\* (\.\S+)?$ matched against the remainder r
SuffixOK(r) ==
  \/ AtEnd(r)
  \/ /\ StartsWith(r, ".")
     /\ \E j \in 2..Len(r) :
          /\ \A k \in 2..j : SubSeq(r, k, k) \notin Whitespace
          /\ AtEnd(From(r, j + 1))

KeepPatternMatches(file_name) ==
  \E i \in 1..Len(file_name) : \E ext \in KeepExtensions :
     /\ i + Len(ext) <= Len(file_name)
     /\ SubSeq(file_name, i, i + Len(ext)) = "." \o ext
     /\ SuffixOK(From(file_name, i + Len(ext) + 1))

(***************************************************************************)
(* int(f.read()) on the text of build/util/LASTCHANGE.committime           *)
(***************************************************************************)

\* the characters int() skips at both ends of the text: those of Whitespace
\* but U+001C to U+001F
IntWhitespace == Whitespace \ { "", "", "", "" }

\* the decimal digits int() accepts that a string of this module can hold,
\* ten of a script in the order of their values: the ASCII digits and those
\* from U+06F0, U+07C0, U+09E6, U+0AE6, U+0BE6, U+0CE6, U+0DE6, U+0ED0,
\* U+1090, U+17E0, U+19D0, U+1A80, U+1A90, U+1BB0, U+A8D0, U+A9D0, U+A9F0
\* and U+ABF0
DigitRuns ==
  << "0123456789",
     "۰۱۲۳۴۵۶۷۸۹",
     "߀߁߂߃߄߅߆߇߈߉",
     "০১২৩৪৫৬৭৮৯",
     "૦૧૨૩૪૫૬૭૮૯",
     "௦௧௨௩௪௫௬௭௮௯",
     "೦೧೨೩೪೫೬೭೮೯",
     "෦෧෨෩෪෫෬෭෮෯",
     "໐໑໒໓໔໕໖໗໘໙",
     "႐႑႒႓႔႕႖႗႘႙",
     "០១២៣៤៥៦៧៨៩",
     "᧐᧑᧒᧓᧔᧕᧖᧗᧘᧙",
     "᪀᪁᪂᪃᪄᪅᪆᪇᪈᪉",
     "᪐᪑᪒᪓᪔᪕᪖᪗᪘᪙",
     "᮰᮱᮲᮳᮴᮵᮶᮷᮸᮹",
     "꣐꣑꣒꣓꣔꣕꣖꣗꣘꣙",
     "꧐꧑꧒꧓꧔꧕꧖꧗꧘꧙",
     "꧰꧱꧲꧳꧴꧵꧶꧷꧸꧹",
     "꯰꯱꯲꯳꯴꯵꯶꯷꯸꯹" >>

IsDigit(c) ==
  \E r \in 1..Len(DigitRuns) : \E d \in 1..10 : SubSeq(DigitRuns[r], d, d) = c

DigitValue(c) ==
  (CHOOSE d \in 1..10 :
     \E r \in 1..Len(DigitRuns) : SubSeq(DigitRuns[r], d, d) = c) - 1

\* the text without the whitespace at its two ends
RECURSIVE IntStrip(_)
IntStrip(s) ==
  IF Len(s) > 0 /\ SubSeq(s, 1, 1) \in IntWhitespace THEN IntStrip(From(s, 2))
  ELSE IF Len(s) > 0 /\ SubSeq(s, Len(s), Len(s)) \in IntWhitespace
       THEN IntStrip(SubSeq(s, 1, Len(s) - 1))
  ELSE s

\* digits, with single underscores between them
IsDigitString(body) ==
  /\ body # ""
  /\ IsDigit(SubSeq(body, 1, 1))
  /\ IsDigit(SubSeq(body, Len(body), Len(body)))
  /\ \A k \in 1..Len(body) :
        SubSeq(body, k, k) = "_" \/ IsDigit(SubSeq(body, k, k))
  /\ \A k \in 1..(Len(body) - 1) : SubSeq(body, k, k + 1) # "__"

\* the value of a digit string, its underscores passed over
RECURSIVE DecimalValue(_, _)
DecimalValue(s, acc) ==
  IF s = "" THEN acc
  ELSE IF SubSeq(s, 1, 1) = "_" THEN DecimalValue(From(s, 2), acc)
  ELSE DecimalValue(From(s, 2), acc * 10 + DigitValue(SubSeq(s, 1, 1)))

\* int(text): [ok, value]; ok is FALSE where int() raises ValueError
ParseInt(text) ==
  LET t == IntStrip(text)
      signed == Len(t) > 0 /\ SubSeq(t, 1, 1) \in {"+", "-"}
      body == IF signed THEN From(t, 2) ELSE t
  IN  IF ~IsDigitString(body) THEN [ok |-> FALSE, value |-> 0]
      ELSE [ok |-> TRUE,
            value |-> IF signed /\ SubSeq(t, 1, 1) = "-"
                      THEN 0 - DecimalValue(body, 0) ELSE DecimalValue(body, 0)]

(***************************************************************************)
(* The checkout the runs are given: every entry with its lstat() data, the *)
(* entries of a directory in sorted order                                  *)
(***************************************************************************)

Tree == <<
  [rel |-> "", kind |-> "dir", mode |-> 493, uid |-> 0, gid |-> 1000,
   ino |-> 100, nlink |-> 1, mtime |-> 1600000000],
  [rel |-> ".git", kind |-> "dir", mode |-> 493, uid |-> 1000, gid |-> 0,
   ino |-> 101, nlink |-> 1, mtime |-> 1600000001],
  [rel |-> ".git/HEAD", kind |-> "file", mode |-> 420, uid |-> 1000, gid |-> 1000,
   ino |-> 102, nlink |-> 1, mtime |-> 1600000002],
  [rel |-> ".svn", kind |-> "dir", mode |-> 493, uid |-> 0, gid |-> 0,
   ino |-> 103, nlink |-> 1, mtime |-> 1600000003],
  [rel |-> ".svn/entries", kind |-> "file", mode |-> 420, uid |-> 1000, gid |-> 1000,
   ino |-> 104, nlink |-> 1, mtime |-> 1600000004],
  [rel |-> "BUILD.gn", kind |-> "file", mode |-> 420, uid |-> 1000, gid |-> 0,
   ino |-> 105, nlink |-> 1, mtime |-> 1600000005],
  [rel |-> "ChangeLog", kind |-> "file", mode |-> 420, uid |-> 0, gid |-> 1000,
   ino |-> 106, nlink |-> 1, mtime |-> 1600000006],
  [rel |-> "build", kind |-> "dir", mode |-> 493, uid |-> 1000, gid |-> 0,
   ino |-> 107, nlink |-> 1, mtime |-> 1600000007],
  [rel |-> "build/util", kind |-> "dir", mode |-> 493, uid |-> 1000, gid |-> 1000,
   ino |-> 108, nlink |-> 1, mtime |-> 1600000008],
  [rel |-> "build/util/LASTCHANGE.committime", kind |-> "file", mode |-> 420, uid |-> 0, gid |-> 0,
   ino |-> 109, nlink |-> 1, mtime |-> 1600000009],
  [rel |-> "chrome", kind |-> "dir", mode |-> 493, uid |-> 1000, gid |-> 1000,
   ino |-> 110, nlink |-> 1, mtime |-> 1600000010],
  [rel |-> "chrome/test", kind |-> "dir", mode |-> 493, uid |-> 1000, gid |-> 0,
   ino |-> 111, nlink |-> 1, mtime |-> 1600000011],
  [rel |-> "chrome/test/data", kind |-> "dir", mode |-> 493, uid |-> 0, gid |-> 1000,
   ino |-> 112, nlink |-> 1, mtime |-> 1600000012],
  [rel |-> "chrome/test/data/webui", kind |-> "dir", mode |-> 493, uid |-> 1000, gid |-> 0,
   ino |-> 113, nlink |-> 1, mtime |-> 1600000013],
  [rel |-> "chrome/test/data/webui/i18n_process_css_test.html", kind |-> "file", mode |-> 420, uid |-> 1000, gid |-> 1000,
   ino |-> 114, nlink |-> 1, mtime |-> 1600000014],
  [rel |-> "chrome/test/data/x.png", kind |-> "file", mode |-> 292, uid |-> 1000, gid |-> 0,
   ino |-> 115, nlink |-> 1, mtime |-> 1600000015],
  [rel |-> "courgette", kind |-> "dir", mode |-> 493, uid |-> 1000, gid |-> 1000,
   ino |-> 116, nlink |-> 1, mtime |-> 1600000016],
  [rel |-> "courgette/testdata", kind |-> "dir", mode |-> 493, uid |-> 1000, gid |-> 0,
   ino |-> 117, nlink |-> 1, mtime |-> 1600000017],
  [rel |-> "courgette/testdata/a.bin", kind |-> "file", mode |-> 256, uid |-> 1000, gid |-> 1000,
   ino |-> 118, nlink |-> 2, mtime |-> 1600000018],
  [rel |-> "my_node_modules_x", kind |-> "dir", mode |-> 493, uid |-> 1000, gid |-> 0,
   ino |-> 119, nlink |-> 1, mtime |-> 1600000019],
  [rel |-> "my_node_modules_x/out", kind |-> "dir", mode |-> 493, uid |-> 1000, gid |-> 1000,
   ino |-> 120, nlink |-> 1, mtime |-> 1600000020],
  [rel |-> "my_node_modules_x/out/a.js", kind |-> "file", mode |-> 420, uid |-> 0, gid |-> 0,
   ino |-> 121, nlink |-> 1, mtime |-> 1600000021],
  [rel |-> "out", kind |-> "dir", mode |-> 493, uid |-> 1000, gid |-> 1000,
   ino |-> 122, nlink |-> 1, mtime |-> 1600000022],
  [rel |-> "out/gen.o", kind |-> "file", mode |-> 420, uid |-> 1000, gid |-> 0,
   ino |-> 123, nlink |-> 1, mtime |-> 1600000023],
  [rel |-> "third_party", kind |-> "dir", mode |-> 493, uid |-> 0, gid |-> 1000,
   ino |-> 124, nlink |-> 1, mtime |-> 1600000024],
  [rel |-> "third_party/blink", kind |-> "dir", mode |-> 493, uid |-> 1000, gid |-> 0,
   ino |-> 125, nlink |-> 1, mtime |-> 1600000025],
  [rel |-> "third_party/blink/web_tests", kind |-> "dir", mode |-> 493, uid |-> 1000, gid |-> 1000,
   ino |-> 126, nlink |-> 1, mtime |-> 1600000026],
  [rel |-> "third_party/blink/web_tests/foo.html", kind |-> "file", mode |-> 420, uid |-> 0, gid |-> 0,
   ino |-> 127, nlink |-> 2, mtime |-> 1600000027],
  [rel |-> "third_party/blink/web_tests/out", kind |-> "dir", mode |-> 493, uid |-> 1000, gid |-> 1000,
   ino |-> 128, nlink |-> 1, mtime |-> 1600000028],
  [rel |-> "third_party/blink/web_tests/out/deep", kind |-> "dir", mode |-> 493, uid |-> 1000, gid |-> 0,
   ino |-> 129, nlink |-> 1, mtime |-> 1600000029],
  [rel |-> "third_party/blink/web_tests/sub", kind |-> "dir", mode |-> 365, uid |-> 1000, gid |-> 1000,
   ino |-> 130, nlink |-> 1, mtime |-> 1600000030],
  [rel |-> "third_party/blink/web_tests/sub/t.txt", kind |-> "file", mode |-> 292, uid |-> 1000, gid |-> 0,
   ino |-> 131, nlink |-> 1, mtime |-> 1600000031],
  [rel |-> "third_party/foo", kind |-> "dir", mode |-> 493, uid |-> 1000, gid |-> 1000,
   ino |-> 132, nlink |-> 1, mtime |-> 1600000032],
  [rel |-> "third_party/foo/.git", kind |-> "file", mode |-> 420, uid |-> 0, gid |-> 0,
   ino |-> 133, nlink |-> 1, mtime |-> 1600000033],
  [rel |-> "third_party/node", kind |-> "dir", mode |-> 493, uid |-> 1000, gid |-> 1000,
   ino |-> 134, nlink |-> 1, mtime |-> 1600000034],
  [rel |-> "third_party/node/linux", kind |-> "dir", mode |-> 493, uid |-> 1000, gid |-> 0,
   ino |-> 135, nlink |-> 1, mtime |-> 1600000035],
  [rel |-> "third_party/node/linux/node_modules", kind |-> "dir", mode |-> 493, uid |-> 0, gid |-> 1000,
   ino |-> 136, nlink |-> 1, mtime |-> 1600000036],
  [rel |-> "third_party/node/linux/node_modules/x", kind |-> "dir", mode |-> 493, uid |-> 1000, gid |-> 0,
   ino |-> 137, nlink |-> 1, mtime |-> 1600000037],
  [rel |-> "third_party/node/linux/node_modules/x/out", kind |-> "dir", mode |-> 493, uid |-> 1000, gid |-> 1000,
   ino |-> 138, nlink |-> 1, mtime |-> 1600000038],
  [rel |-> "third_party/node/node_modules", kind |-> "dir", mode |-> 493, uid |-> 0, gid |-> 0,
   ino |-> 139, nlink |-> 1, mtime |-> 1600000039],
  [rel |-> "third_party/node/node_modules/m", kind |-> "dir", mode |-> 493, uid |-> 1000, gid |-> 1000,
   ino |-> 140, nlink |-> 1, mtime |-> 1600000040],
  [rel |-> "third_party/node/node_modules/m/out", kind |-> "dir", mode |-> 493, uid |-> 1000, gid |-> 0,
   ino |-> 141, nlink |-> 1, mtime |-> 1600000041],
  [rel |-> "third_party/node/node_modules/m/out/index.js", kind |-> "file", mode |-> 420, uid |-> 0, gid |-> 1000,
   ino |-> 142, nlink |-> 1, mtime |-> 1600000042],
  [rel |-> "third_party/node/node_modules/n", kind |-> "dir", mode |-> 493, uid |-> 1000, gid |-> 0,
   ino |-> 143, nlink |-> 1, mtime |-> 1600000043],
  [rel |-> "third_party/node/node_modules/n/out", kind |-> "link_broken", mode |-> 511, uid |-> 1000, gid |-> 1000,
   ino |-> 144, nlink |-> 1, mtime |-> 1600000044],
  [rel |-> "third_party/rust-src", kind |-> "dir", mode |-> 493, uid |-> 0, gid |-> 0,
   ino |-> 145, nlink |-> 1, mtime |-> 1600000045],
  [rel |-> "third_party/rust-src/.git", kind |-> "dir", mode |-> 493, uid |-> 1000, gid |-> 1000,
   ino |-> 146, nlink |-> 1, mtime |-> 1600000046],
  [rel |-> "third_party/rust-src/.git/HEAD", kind |-> "file", mode |-> 420, uid |-> 1000, gid |-> 0,
   ino |-> 147, nlink |-> 1, mtime |-> 1600000047],
  [rel |-> "tools", kind |-> "dir", mode |-> 493, uid |-> 0, gid |-> 1000,
   ino |-> 148, nlink |-> 1, mtime |-> 1600000048],
  [rel |-> "tools/perf", kind |-> "dir", mode |-> 493, uid |-> 1000, gid |-> 0,
   ino |-> 149, nlink |-> 1, mtime |-> 1600000049],
  [rel |-> "tools/perf/testdata", kind |-> "file", mode |-> 420, uid |-> 1000, gid |-> 1000,
   ino |-> 150, nlink |-> 1, mtime |-> 1600000050],
  [rel |-> "v8", kind |-> "dir", mode |-> 493, uid |-> 0, gid |-> 0,
   ino |-> 151, nlink |-> 1, mtime |-> 1600000051],
  [rel |-> "v8/out", kind |-> "file", mode |-> 493, uid |-> 1000, gid |-> 1000,
   ino |-> 152, nlink |-> 1, mtime |-> 1600000052],
  [rel |-> "v8/src", kind |-> "dir", mode |-> 493, uid |-> 1000, gid |-> 0,
   ino |-> 153, nlink |-> 1, mtime |-> 1600000053],
  [rel |-> "v8/src/api.cc", kind |-> "file", mode |-> 384, uid |-> 0, gid |-> 1000,
   ino |-> 154, nlink |-> 2, mtime |-> 1600000054],
  [rel |-> "v8/src/api_alias.cc", kind |-> "file", mode |-> 384, uid |-> 0, gid |-> 1000,
   ino |-> 154, nlink |-> 2, mtime |-> 1600000054],
  [rel |-> "v8/src/foo_copy.html", kind |-> "file", mode |-> 420, uid |-> 0, gid |-> 0,
   ino |-> 127, nlink |-> 2, mtime |-> 1600000027],
  [rel |-> "v8/test", kind |-> "dir", mode |-> 493, uid |-> 0, gid |-> 0,
   ino |-> 157, nlink |-> 1, mtime |-> 1600000057],
  [rel |-> "v8/test/BUILD.gn", kind |-> "file", mode |-> 420, uid |-> 1000, gid |-> 1000,
   ino |-> 158, nlink |-> 1, mtime |-> 1600000058],
  [rel |-> "v8/test/ChangeLog.gn", kind |-> "file", mode |-> 420, uid |-> 1000, gid |-> 0,
   ino |-> 159, nlink |-> 1, mtime |-> 1600000059],
  [rel |-> "v8/test/__pycache__", kind |-> "dir", mode |-> 493, uid |-> 0, gid |-> 1000,
   ino |-> 160, nlink |-> 1, mtime |-> 1600000060],
  [rel |-> "v8/test/a.gn.b c", kind |-> "file", mode |-> 420, uid |-> 1000, gid |-> 0,
   ino |-> 161, nlink |-> 1, mtime |-> 1600000061],
  [rel |-> "v8/test/dead.gni", kind |-> "link_broken", mode |-> 511, uid |-> 1000, gid |-> 1000,
   ino |-> 162, nlink |-> 1, mtime |-> 1600000062],
  [rel |-> "v8/test/foo.pyc", kind |-> "file", mode |-> 420, uid |-> 0, gid |-> 0,
   ino |-> 163, nlink |-> 1, mtime |-> 1600000063],
  [rel |-> "v8/test/link", kind |-> "link_file", mode |-> 511, uid |-> 1000, gid |-> 1000,
   ino |-> 164, nlink |-> 1, mtime |-> 1600000064],
  [rel |-> "v8/test/run.gn.pyc", kind |-> "file", mode |-> 420, uid |-> 1000, gid |-> 0,
   ino |-> 165, nlink |-> 1, mtime |-> 1600000065],
  [rel |-> "v8/test/torque", kind |-> "dir", mode |-> 493, uid |-> 0, gid |-> 1000,
   ino |-> 166, nlink |-> 1, mtime |-> 1600000066],
  [rel |-> "v8/test/torque/test-torque.tq", kind |-> "file", mode |-> 420, uid |-> 1000, gid |-> 0,
   ino |-> 167, nlink |-> 1, mtime |-> 1600000067] >>

\* bounds of the inputs
MaxArgs == 2
MaxXzExit == 1

SrcRoot == "/src"
MissingDir == "/nosuch"
CommitTimeFile == "build/util/LASTCHANGE.committime"
CommitTimeTexts == { "1700000000\n", "42", "1_000", "+7 ", "n/a" }
VersionTexts == { "", "129.0.1" }
BasenameTexts == { "", "chromium-129" }
TestDataKinds == { "dir", "link_dir", "absent" }

\* the positional arguments of a run with n of them
ArgsOf(n) == [k \in 1..n |-> IF k = 1 THEN "/o/dist" ELSE "extra"]

AbsName(rel) == IF rel = "" THEN SrcRoot ELSE PathJoin(SrcRoot, rel)

TreeEntry(rel) == Tree[CHOOSE i \in 1..Len(Tree) : Tree[i].rel = rel]

\* the kind of one entry in a given variant of the checkout
VariantKind(rel, alt, td, ct) ==
  IF rel = "courgette/testdata" THEN td
  ELSE IF rel = "third_party/node/linux/node_modules/x/out" /\ alt THEN "file"
  ELSE IF rel = "chrome/test/data/webui/i18n_process_css_test.html" /\ alt
       THEN "link_broken"
  ELSE IF rel = CommitTimeFile /\ ~ct THEN "absent"
  ELSE TreeEntry(rel).kind

\* an entry exists only inside a real directory
RECURSIVE PresentKind(_, _, _, _)
PresentKind(rel, alt, td, ct) ==
  IF rel = "" THEN "dir"
  ELSE LET parent == PathSplit(rel)[1]
       IN  IF PresentKind(parent, alt, td, ct) = "dir"
           THEN VariantKind(rel, alt, td, ct) ELSE "absent"

LinkKinds == {"link_file", "link_dir", "link_broken"}

\* where the symbolic links of the checkout point
LinkTarget(kind) ==
  IF kind = "link_file" THEN "/src/BUILD.gn"
  ELSE IF kind = "link_dir" THEN "/src/v8"
  ELSE IF kind = "link_broken" THEN "/nonexistent/target"
  ELSE ""

FsOf(alt, td, ct) ==
  [name \in { AbsName(Tree[i].rel) : i \in 1..Len(Tree) } |->
     LET e == Tree[CHOOSE i \in 1..Len(Tree) : AbsName(Tree[i].rel) = name]
         kind == PresentKind(e.rel, alt, td, ct)
     IN  [rel |-> e.rel, kind |-> kind,
          \* lstat() of a symbolic link: mode 0777
          mode |-> IF kind \in LinkKinds THEN 511 ELSE e.mode,
          uid |-> e.uid, gid |-> e.gid, ino |-> e.ino, nlink |-> e.nlink,
          target |-> LinkTarget(kind), mtime |-> e.mtime]]

(***************************************************************************)
(* State                                                                   *)
(***************************************************************************)

VARIABLES
  args,                       \* positional arguments after option parsing
  options,                    \* the parsed options
  fs,                         \* the file system: name -> lstat() data
  lastchange,                 \* text of build/util/LASTCHANGE.committime
  pc,                         \* position of main
  tarball_open,               \* the output file has been opened
  xz_started,                 \* the xz process has been started
  xz_exit,                    \* exit status of the xz process, -1 while it runs
  xz_status,                  \* xz.returncode, -1 until xz.wait() has returned
  remove_nonessential_files,  \* MyTarFile.__remove_nonessential_files
  verbose,                    \* MyTarFile.__verbose
  src_dir,                    \* MyTarFile.__src_dir
  mtime,                      \* MyTarFile.__mtime
  reads,                      \* number of reads of the committime file
  next_dir,                   \* index into TEST_DIRS of the loop at line 257
  stack,                      \* pending calls of MyTarFile.add, innermost first
  passed,                     \* the calls of archive.add made by main, in order
  visited,                    \* names of the calls of MyTarFile.add that returned
  members,                    \* entries written to the archive, in order
  inodes,                     \* TarFile.inodes: inode -> name in the archive
  archive_closed,             \* archive.close() has run
  stdout,                     \* printed lines
  ret                         \* value returned by main, -1 while running

vars == <<args, options, fs, lastchange, pc, tarball_open, xz_started, xz_exit,
          xz_status, remove_nonessential_files, verbose, src_dir, mtime, reads,
          next_dir, stack, passed, visited, members, inodes, archive_closed,
          stdout, ret>>

inputs == <<args, options, fs, lastchange>>

(***************************************************************************)
(* os.path over the file system                                            *)
(***************************************************************************)

Kind(name) == IF name \in DOMAIN fs THEN fs[name].kind ELSE "absent"

islink(name) == Kind(name) \in LinkKinds

exists(name) == Kind(name) \in {"file", "dir", "link_file", "link_dir"}

isfile(name) == Kind(name) \in {"file", "link_file"}

isdir(name) == Kind(name) \in {"dir", "link_dir"}

\* sorted(os.listdir(name))
listdir(name) ==
  LET InDir(e) == /\ e.rel # ""
                  /\ PathSplit(AbsName(e.rel))[1] = name
                  /\ Kind(AbsName(e.rel)) # "absent"
      found == SelectSeq(Tree, InDir)
  IN  [i \in 1..Len(found) |-> PathSplit(found[i].rel)[2]]

(***************************************************************************)
(* MyTarFile                                                               *)
(***************************************************************************)

\* the existence test negated on the wrong operand
IsBrokenSymlink_WrongNegation(name) == ~islink(name) /\ ~exists(name)

\* line 153
IsBrokenSymlink(name) == islink(name) /\ ~exists(name)

\* line 158
IsCacheArtifact(file_name) == file_name = "__pycache__" \/ EndsWith(file_name, ".pyc")

\* the rule without its node_modules exemption
IsVcsOrOutput_NoExemption(file_name, file_path) == file_name \in {".svn", "out"}

\* lines 162-166
IsVcsOrOutput(file_name, file_path) ==
  file_name \in {".svn", "out"} /\ ~Contains(file_path, "node_modules")

\* the rule with the 'not' of line 171 lost
IsNonessentialGit_NotLost(file_name, rel_name) ==
  file_name = ".git" /\ \E essential \in ESSENTIAL_GIT_DIRS : StartsWith(rel_name, essential)

\* lines 170-172
IsNonessentialGit(file_name, rel_name) ==
  file_name = ".git" /\ ~\E essential \in ESSENTIAL_GIT_DIRS : StartsWith(rel_name, essential)

\* line 179
HasChangeLog(name) == Contains(name, "ChangeLog")

\* keep_file without the Essential File Overrides
keep_file_PatternOnly(file_name, rel_name) == KeepPatternMatches(file_name)

\* lines 189-191
keep_file(file_name, rel_name) ==
  KeepPatternMatches(file_name) \/ rel_name \in ESSENTIAL_FILES

\* the subtree test over TEST_DIRS alone
InRemovedSubtree_TestDirsOnly(rel_name) ==
  \E path \in TestDirSet : rel_name = path \/ StartsWith(rel_name, path \o "/")

\* lines 195-196
InRemovedSubtree(rel_name) ==
  \E path \in nonessential_dirs \cup TestDirSet :
     rel_name = path \/ StartsWith(rel_name, path \o "/")

\* the subtree rule without the test of line 197 for a file or link
IsNonessential_AnyKind(name, file_name, rel_name) ==
  \/ HasChangeLog(name)
  \/ /\ ~keep_file(file_name, rel_name)
     /\ InRemovedSubtree(rel_name)

\* lines 176-199
IsNonessential(name, file_name, rel_name) ==
  \/ HasChangeLog(name)
  \/ /\ ~keep_file(file_name, rel_name)
     /\ InRemovedSubtree(rel_name)
     /\ (isfile(name) \/ islink(name))

\* MyTarFile.add returns without writing the entry
Skipped(name) ==
  LET rel_name == RelPath(name, src_dir)
      file_path == PathSplit(name)[1]
      file_name == PathSplit(name)[2]
  IN  \/ IsBrokenSymlink(name)
      \/ IsCacheArtifact(file_name)
      \/ IsVcsOrOutput(file_name, file_path)
      \/ IsNonessentialGit(file_name, rel_name)
      \/ (remove_nonessential_files /\ IsNonessential(name, file_name, rel_name))

\* arcname.lstrip('/')
RECURSIVE LStripSlash(_)
LStripSlash(s) == IF StartsWith(s, "/") THEN LStripSlash(From(s, 2)) ELSE s

\* pwd.getpwuid(uid)[0] in the user database of the host
OwnerName(uid) == IF uid = 0 THEN "root" ELSE "dev"

\* grp.getgrgid(gid)[0] in the group database of the host
GroupName(gid) == IF gid = 0 THEN "root" ELSE "dev"

\* a further name of a regular file that is in the archive under another name
IsHardLink(name, arcname) ==
  /\ Kind(name) = "file"
  /\ fs[name].nlink > 1
  /\ fs[name].ino \in DOMAIN inodes
  /\ LStripSlash(arcname) # inodes[fs[name].ino]

\* TarFile.gettarinfo(name, arcname): the entry as the file system has it
gettarinfo(name, arcname) ==
  [name |-> LStripSlash(arcname),
   path |-> name,
   type |-> IF islink(name) THEN "symlink"
            ELSE IF IsHardLink(name, arcname) THEN "hardlink"
            ELSE Kind(name),
   linkname |-> IF islink(name) THEN fs[name].target
                ELSE IF IsHardLink(name, arcname) THEN inodes[fs[name].ino]
                ELSE "",
   mode |-> fs[name].mode,
   mtime |-> fs[name].mtime,
   uid |-> fs[name].uid,
   gid |-> fs[name].gid,
   uname |-> OwnerName(fs[name].uid),
   gname |-> GroupName(fs[name].gid)]

\* TarFile.inodes after gettarinfo(name, arcname): a regular file that is
\* entered as such is recorded under its name in the archive
InodesAfter(name, arcname) ==
  IF Kind(name) = "file" /\ ~IsHardLink(name, arcname)
  THEN [i \in DOMAIN inodes \cup {fs[name].ino} |->
          IF i = fs[name].ino THEN LStripSlash(arcname) ELSE inodes[i]]
  ELSE inodes

\* the normalizer without the owner-write bit
Filter_KeepsMode(tar_info) ==
  [tar_info EXCEPT !.mtime = mtime,
                   !.uid = 0, !.gid = 0, !.uname = "0", !.gname = "0"]

\* MyTarFile.__filter
Filter(tar_info) ==
  [tar_info EXCEPT !.mtime = mtime, !.mode = OrWUSR(@),
                   !.uid = 0, !.gid = 0, !.uname = "0", !.gname = "0"]

\* the recursive calls TarFile.add makes for a directory it has written
Recursion(name, arcname) ==
  IF Kind(name) = "dir"
  THEN LET fnames == listdir(name)
       IN  [i \in 1..Len(fnames) |->
              [name |-> PathJoin(name, fnames[i]), arcname |-> PathJoin(arcname, fnames[i])]]
  ELSE <<>>

\* self.__report_skipped / self.__report_added
Report(tag, name) == IF verbose THEN Append(stdout, tag \o "\t" \o name) ELSE stdout

\* one call of MyTarFile.add, its recursive calls left pending in order
MyTarFile_add ==
  /\ stack # <<>>
  /\ LET name == Head(stack).name
         arcname == Head(stack).arcname
     IN  /\ visited' = Append(visited, name)
         /\ IF Skipped(name)
            THEN /\ stdout' = Report("D", name)
                 /\ stack' = Tail(stack)
                 /\ UNCHANGED <<members, inodes>>
            ELSE /\ stdout' = Report("A", name)
                 /\ members' = Append(members, Filter(gettarinfo(name, arcname)))
                 /\ inodes' = InodesAfter(name, arcname)
                 /\ stack' = Recursion(name, arcname) \o Tail(stack)
  /\ UNCHANGED <<inputs, pc, tarball_open, xz_started, xz_exit, xz_status,
                 remove_nonessential_files, verbose, src_dir, mtime, reads,
                 next_dir, passed, archive_closed, ret>>

\* a call of MyTarFile.add that writes to the pipe after xz has exited with
\* a non-zero status: the write raises BrokenPipeError, which leaves every
\* pending call and, through the finally clause of line 268, main; xz is
\* not waited for
MyTarFile_add_BrokenPipe ==
  /\ stack # <<>>
  /\ ~Skipped(Head(stack).name)
  /\ \E status \in 1..MaxXzExit : xz_exit' = status
  /\ stdout' = Report("A", Head(stack).name)
  /\ inodes' = InodesAfter(Head(stack).name, Head(stack).arcname)
  /\ stack' = <<>>
  /\ archive_closed' = TRUE
  /\ pc' = "raised"
  /\ UNCHANGED <<inputs, tarball_open, xz_started, xz_status,
                 remove_nonessential_files, verbose, src_dir, mtime, reads,
                 next_dir, passed, visited, members, ret>>

(***************************************************************************)
(* main                                                                    *)
(***************************************************************************)

\* line 236
output_basename ==
  IF options.basename # "" THEN options.basename ELSE PathBasename(args[1])

PrintLine(line) == Append(stdout, line)

\* the source directory left unchecked
SrcDirMissing_Unchecked(dir) == FALSE

\* line 231
SrcDirMissing(dir) == ~exists(dir)

\* os.path.exists in place of os.path.isdir
TestDirPresent_Exists(test_dir) == exists(test_dir)

\* line 259
TestDirPresent(test_dir) == isdir(test_dir)

\* lines 220-233: the configuration checks
Main_CheckConfig ==
  /\ pc = "start"
  /\ IF Len(args) # 1
     THEN /\ stdout' = stdout \o <<"You must provide only one argument: output file name",
                                   "(without .tar.xz extension).">>
          /\ ret' = 1
          /\ pc' = "done"
     ELSE IF options.version = ""
     THEN /\ stdout' = PrintLine("A version number must be provided via the --version option.")
          /\ ret' = 1
          /\ pc' = "done"
     ELSE IF ~options.has_src_dir
     THEN \* os.path.exists(None) raises TypeError
          /\ pc' = "raised"
          /\ UNCHANGED <<stdout, ret>>
     ELSE IF SrcDirMissing(options.src_dir)
     THEN /\ stdout' = PrintLine("Cannot find the src directory " \o options.src_dir)
          /\ ret' = 1
          /\ pc' = "done"
     ELSE /\ pc' = "open"
          /\ UNCHANGED <<stdout, ret>>
  /\ UNCHANGED <<inputs, tarball_open, xz_started, xz_exit, xz_status,
                 remove_nonessential_files, verbose, src_dir, mtime, reads,
                 next_dir, stack, passed, visited, members, inodes,
                 archive_closed>>

\* lines 235-247: open the output, start xz, create and configure the archive
Main_Open ==
  /\ pc = "open"
  /\ tarball_open' = TRUE
  /\ xz_started' = TRUE
  /\ remove_nonessential_files' = options.remove_nonessential_files
  /\ verbose' = options.verbose
  /\ src_dir' = options.src_dir
  /\ pc' = "timestamp"
  /\ UNCHANGED <<inputs, xz_exit, xz_status, mtime, reads, next_dir, stack,
                 passed, visited, members, inodes, archive_closed, stdout, ret>>

\* lines 249-253: read the timestamp; open() and int() raise on a missing
\* file and on text that is no integer
Main_ReadTimestamp ==
  /\ pc = "timestamp"
  /\ LET file == PathJoin(options.src_dir, CommitTimeFile)
     IN  IF ~isfile(file)
         THEN /\ pc' = "raised"
              /\ UNCHANGED <<reads, mtime>>
         ELSE /\ reads' = reads + 1
              /\ IF ParseInt(lastchange).ok
                 THEN /\ mtime' = ParseInt(lastchange).value
                      /\ pc' = IF options.test_data THEN "test_dirs" ELSE "root"
                 ELSE /\ pc' = "raised"
                      /\ UNCHANGED mtime
  /\ UNCHANGED <<inputs, tarball_open, xz_started, xz_exit, xz_status,
                 remove_nonessential_files, verbose, src_dir, next_dir, stack,
                 passed, visited, members, inodes, archive_closed, stdout, ret>>

\* the call archive.add(name, arcname=arcname) made by main
CallAdd(name, arcname) ==
  /\ stack' = <<[name |-> name, arcname |-> arcname]>>
  /\ passed' = Append(passed, [name |-> name, arcname |-> arcname])

\* lines 266-267: full-tree mode
Main_AddRoot ==
  /\ pc = "root"
  /\ CallAdd(options.src_dir, output_basename)
  /\ pc' = "added"
  /\ UNCHANGED <<inputs, tarball_open, xz_started, xz_exit, xz_status,
                 remove_nonessential_files, verbose, src_dir, mtime, reads,
                 next_dir, visited, members, inodes, archive_closed, stdout, ret>>

\* lines 257-265: one iteration of the loop over TEST_DIRS
Main_TestDir ==
  /\ pc = "test_dirs"
  /\ stack = <<>>
  /\ next_dir <= Len(TEST_DIRS)
  /\ LET directory == TEST_DIRS[next_dir]
         test_dir == PathJoin(options.src_dir, directory)
     IN  IF ~TestDirPresent(test_dir)
         THEN /\ stdout' = PrintLine("\"" \o test_dir \o "\" not present; skipping.")
              /\ UNCHANGED <<stack, passed>>
         ELSE /\ CallAdd(test_dir, PathJoin(output_basename, directory))
              /\ UNCHANGED stdout
  /\ next_dir' = next_dir + 1
  /\ UNCHANGED <<inputs, pc, tarball_open, xz_started, xz_exit, xz_status,
                 remove_nonessential_files, verbose, src_dir, mtime, reads,
                 visited, members, inodes, archive_closed, ret>>

TraversalOver ==
  /\ stack = <<>>
  /\ \/ pc = "added"
     \/ pc = "test_dirs" /\ next_dir > Len(TEST_DIRS)

\* lines 268-271: archive.close() and xz.stdin.close()
Main_Close ==
  /\ TraversalOver
  /\ archive_closed' = TRUE
  /\ pc' = "wait"
  /\ UNCHANGED <<inputs, tarball_open, xz_started, xz_exit, xz_status,
                 remove_nonessential_files, verbose, src_dir, mtime, reads,
                 next_dir, stack, passed, visited, members, inodes, stdout, ret>>

\* lines 268-271 after xz has exited with a non-zero status: archive.close()
\* writes what the archive still buffers and the end-of-archive blocks to
\* the pipe, and xz.stdin.close() what the pipe object still buffers; the
\* write raises BrokenPipeError, which leaves main; xz is not waited for
Main_Close_BrokenPipe ==
  /\ TraversalOver
  /\ \E status \in 1..MaxXzExit : xz_exit' = status
  /\ archive_closed' = TRUE
  /\ pc' = "raised"
  /\ UNCHANGED <<inputs, tarball_open, xz_started, xz_status,
                 remove_nonessential_files, verbose, src_dir, mtime, reads,
                 next_dir, stack, passed, visited, members, inodes, stdout, ret>>

\* lines 273-280: wait for xz and return
Main_Wait ==
  /\ pc = "wait"
  /\ \E status \in 0..MaxXzExit :
       /\ xz_exit' = status
       /\ xz_status' = status
       /\ IF status # 0
          THEN /\ stdout' = PrintLine("xz -9 failed!")
               /\ ret' = 1
               /\ UNCHANGED tarball_open
          ELSE /\ tarball_open' = FALSE
               /\ ret' = 0
               /\ UNCHANGED stdout
  /\ pc' = "done"
  /\ UNCHANGED <<inputs, xz_started, remove_nonessential_files, verbose, src_dir,
                 mtime, reads, next_dir, stack, passed, visited, members, inodes,
                 archive_closed>>

(***************************************************************************)
(* Specification                                                           *)
(***************************************************************************)

Init ==
  /\ \E alt \in BOOLEAN, td \in TestDataKinds, ct \in BOOLEAN :
       /\ fs = FsOf(alt, td, ct)
       /\ IF ct THEN lastchange \in CommitTimeTexts ELSE lastchange = ""
  /\ \E n \in 0..MaxArgs : args = ArgsOf(n)
  /\ \E b \in BasenameTexts, v \in VersionTexts,
        r \in BOOLEAN, t \in BOOLEAN, vb \in BOOLEAN,
        d \in {"none", SrcRoot, MissingDir} :
       options = [basename |-> b, version |-> v,
                  remove_nonessential_files |-> r, test_data |-> t, verbose |-> vb,
                  has_src_dir |-> d # "none",
                  src_dir |-> IF d = "none" THEN "" ELSE d]
  /\ pc = "start"
  /\ tarball_open = FALSE
  /\ xz_started = FALSE
  /\ xz_exit = -1
  /\ xz_status = -1
  /\ remove_nonessential_files = FALSE
  /\ verbose = FALSE
  /\ src_dir = ""
  /\ mtime = 0
  /\ reads = 0
  /\ next_dir = 1
  /\ stack = <<>>
  /\ passed = <<>>
  /\ visited = <<>>
  /\ members = <<>>
  /\ inodes = <<>>
  /\ archive_closed = FALSE
  /\ stdout = <<>>
  /\ ret = -1

\* lines 283-284: the exit status of the process; an exception that leaves
\* main ends the interpreter with status 1
ExitStatus == IF pc = "raised" THEN 1 ELSE ret

Next ==
  \/ Main_CheckConfig
  \/ Main_Open
  \/ Main_ReadTimestamp
  \/ Main_AddRoot
  \/ Main_TestDir
  \/ MyTarFile_add
  \/ MyTarFile_add_BrokenPipe
  \/ Main_Close
  \/ Main_Close_BrokenPipe
  \/ Main_Wait

Spec == Init /\ [][Next]_vars

(***************************************************************************)
(* Vocabulary of the properties                                            *)
(***************************************************************************)

VisitedNames == { visited[i] : i \in 1..Len(visited) }

WrittenNames == { members[i].path : i \in 1..Len(members) }

Written(name) == name \in WrittenNames

SizeReduction == options.remove_nonessential_files

\* the traversal has run to its end and the archive has been closed
TraversalComplete == archive_closed /\ pc \in {"wait", "done"}

BaseOf(name) == PathSplit(name)[2]

ParentOf(name) == PathSplit(name)[1]

\* the path of a visited entry relative to the source root
RelOf(name) ==
  IF name = options.src_dir THEN "." ELSE From(name, Len(options.src_dir) + 2)

\* rel equals a directory of dirs or is a '/'-delimited descendant of one
AtOrBeneath(rel, dirs) ==
  \E d \in dirs : rel = d \/ StartsWith(rel, d \o "/")

HasComponent(path, c) ==
  \E k \in 1..Len(Components(path)) : Components(path)[k] = c

BrokenLink(name) == Kind(name) = "link_broken"

\* base ends in one of the build-critical extensions, with or without one
\* extra dotted suffix
EndsInBuildExtension(base) ==
  \E ext \in {"gn", "gni", "grd", "grdp", "isolate", "pydeps"} :
     \/ EndsWith(base, "." \o ext)
     \/ \E k \in 2..(Len(base) - 1) :
          /\ SubSeq(base, k, k) = "."
          /\ EndsWith(SubSeq(base, 1, k - 1), "." \o ext)
          /\ \A j \in (k + 1)..Len(base) :
               SubSeq(base, j, j) \notin (Whitespace \cup {"."})

AlwaysKeptByName(name) ==
  EndsInBuildExtension(BaseOf(name)) \/ RelOf(name) \in ESSENTIAL_FILES

(***************************************************************************)
(* C1                                                                      *)
(***************************************************************************)

\* C1 as stated: in size-reduction mode every visited entry whose base name
\* ends in a build-critical extension, or whose relative path is an
\* Essential File Override, is written to the archive.
C1_AlwaysKept ==
  SizeReduction =>
    \A name \in VisitedNames : AlwaysKeptByName(name) => Written(name)

\* C1 amended: in size-reduction mode such an entry is written to the
\* archive unless it is a broken symbolic link, its base name ends in .pyc,
\* or its path contains the text ChangeLog; in particular it is written
\* when it lies under a Nonessential or Test Data Directory.
C1_KeptUnlessEarlierRule ==
  SizeReduction =>
    \A name \in VisitedNames :
       /\ AlwaysKeptByName(name)
       /\ ~BrokenLink(name)
       /\ ~EndsWith(BaseOf(name), ".pyc")
       /\ ~Contains(name, "ChangeLog")
       => Written(name)

\* a size-reduction run has written a .gn file under the Nonessential
\* Directory v8/test and an Essential File Override under chrome/test/data
C1_Witness ==
  /\ SizeReduction
  /\ Written("/src/v8/test/BUILD.gn")
  /\ Written("/src/chrome/test/data/webui/i18n_process_css_test.html")

(***************************************************************************)
(* C2                                                                      *)
(***************************************************************************)

OutUnderNodeModules(name) ==
  BaseOf(name) = "out" /\ HasComponent(ParentOf(name), "node_modules")

\* C2 as stated: every visited entry named out beneath a component
\* node_modules is written to the archive, whatever the flags.
C2_OutAlwaysKept ==
  \A name \in VisitedNames : OutUnderNodeModules(name) => Written(name)

\* C2 amended: a visited entry named out beneath a component node_modules
\* is written to the archive unless it is a broken symbolic link or, in
\* size-reduction mode, its path contains the text ChangeLog or it is a file
\* or symbolic link at or beneath a Nonessential or Test Data Directory; in
\* those cases it is dropped.
C2_OutKeptUnlessOtherRule ==
  \A name \in VisitedNames :
     OutUnderNodeModules(name) =>
       (Written(name) <=>
          ~ \/ BrokenLink(name)
            \/ /\ SizeReduction
               /\ \/ Contains(name, "ChangeLog")
                  \/ /\ Kind(name) # "dir"
                     /\ AtOrBeneath(RelOf(name), nonessential_dirs \cup TestDirSet))

\* a size-reduction run has written a directory node_modules/x/out that
\* lies under the Nonessential Directory third_party/node/linux
C2_Witness ==
  /\ SizeReduction
  /\ Kind("/src/third_party/node/linux/node_modules/x/out") = "dir"
  /\ Written("/src/third_party/node/linux/node_modules/x/out")
  /\ Written("/src/third_party/node/node_modules/m/out/index.js")

(***************************************************************************)
(* C3                                                                      *)
(***************************************************************************)

\* a regular file under a Nonessential Directory that nothing exempts
PlainNonessentialFile(name) ==
  /\ Kind(name) = "file"
  /\ AtOrBeneath(RelOf(name), nonessential_dirs)
  /\ ~EndsInBuildExtension(BaseOf(name))
  /\ RelOf(name) \notin ESSENTIAL_FILES

\* C3 as stated: such a file is dropped in size-reduction mode and written
\* to the archive when the mode is off.
C3_DroppedOnKeptOff ==
  \A name \in VisitedNames :
     PlainNonessentialFile(name) => (Written(name) <=> ~SizeReduction)

\* the base names and paths the rules before the size-reduction rule drop in
\* every mode
DroppedInEveryMode(name) ==
  \/ BaseOf(name) = "__pycache__"
  \/ EndsWith(BaseOf(name), ".pyc")
  \/ BaseOf(name) \in {".svn", "out"} /\ ~Contains(ParentOf(name), "node_modules")
  \/ BaseOf(name) = ".git" /\ ~StartsWith(RelOf(name), "third_party/rust-src/")

\* C3 amended: such a file is dropped in size-reduction mode; with the mode
\* off the same file is written to the archive unless its base name is
\* __pycache__ or ends in .pyc, is .svn or out with no node_modules in its
\* parent path, or is .git outside third_party/rust-src/.
C3_DroppedOnKeptOffUnlessNamed ==
  \A name \in VisitedNames :
     PlainNonessentialFile(name) =>
       (Written(name) <=> (~SizeReduction /\ ~DroppedInEveryMode(name)))

\* a size-reduction run has visited third_party/blink/web_tests/foo.html and
\* not written it
C3_Witness ==
  /\ SizeReduction
  /\ "/src/third_party/blink/web_tests/foo.html" \in VisitedNames
  /\ ~Written("/src/third_party/blink/web_tests/foo.html")

(***************************************************************************)
(* C4                                                                      *)
(***************************************************************************)

\* the paths from the source root down to name that end in a component .git
GitPrefixes(name) ==
  LET parts == Components(RelOf(name))
  IN  { JoinSlash(SubSeq(parts, 1, k)) : k \in { j \in 1..Len(parts) : parts[j] = ".git" } }

NonessentialGitPath(rel) == ~StartsWith(rel, "third_party/rust-src/")

\* C4: every visited entry named .git whose relative path does not start
\* with third_party/rust-src/ is dropped, and no entry of the archive lies
\* at or beneath such a .git path.
C4_NoNonessentialGit ==
  /\ \A name \in VisitedNames :
        BaseOf(name) = ".git" /\ NonessentialGitPath(RelOf(name)) => ~Written(name)
  /\ \A name \in WrittenNames :
        \A g \in GitPrefixes(name) : ~NonessentialGitPath(g)

\* a full run has ended after dropping .git at the root and writing the
\* .git directory of third_party/rust-src with its content
C4_Witness ==
  /\ pc = "done"
  /\ ret = 0
  /\ "/src/.git" \in VisitedNames
  /\ "/src/third_party/foo/.git" \in VisitedNames
  /\ Written("/src/third_party/rust-src/.git/HEAD")

(***************************************************************************)
(* C5                                                                      *)
(***************************************************************************)

\* C5: a visited symbolic link whose target does not exist is never written
\* to the archive.
C5_BrokenLinkDropped ==
  \A name \in VisitedNames : BrokenLink(name) => ~Written(name)

\* a run with size reduction off has visited the broken link v8/test/dead.gni,
\* whose name no other rule drops, and not written it
C5_Witness ==
  /\ ~SizeReduction
  /\ "/src/v8/test/dead.gni" \in VisitedNames
  /\ "/src/third_party/node/node_modules/n/out" \in VisitedNames
  /\ ~Written("/src/v8/test/dead.gni")

(***************************************************************************)
(* C6                                                                      *)
(***************************************************************************)

\* the integer the committime file of the run holds
CommitTimeValue ==
  IF lastchange = "1700000000\n" THEN 1700000000
  ELSE IF lastchange = "42" THEN 42
  ELSE IF lastchange = "1_000" THEN 1000
  ELSE IF lastchange = "+7 " THEN 7
  ELSE -1

HasOwnerWrite(mode) == (mode \div 128) % 2 = 1

\* C6: the timestamp is read at most once, and exactly once before any
\* entry is visited; every entry of the archive carries that timestamp,
\* uid 0, gid 0, uname "0", gname "0" and its original mode with the
\* owner-write bit set.
C6_NormalizedMetadata ==
  /\ reads <= 1
  /\ visited # <<>> => reads = 1
  /\ \A i \in 1..Len(members) :
       LET m == members[i]
           orig == fs[m.path].mode
       IN  /\ m.mtime = CommitTimeValue
           /\ m.uid = 0 /\ m.gid = 0 /\ m.uname = "0" /\ m.gname = "0"
           /\ HasOwnerWrite(m.mode)
           /\ m.mode = IF HasOwnerWrite(orig) THEN orig ELSE orig + 128

\* a test-data run has ended with an entry in the archive, below the
\* directory passed to it, that the file system holds read-only, owned by
\* another user and with another modification time
C6_Witness ==
  /\ options.test_data
  /\ pc = "done"
  /\ \E i \in 1..Len(members) :
       LET e == fs[members[i].path]
       IN  /\ ~HasOwnerWrite(e.mode)
           /\ e.uid # 0
           /\ e.mtime # CommitTimeValue
           /\ members[i].path \notin { passed[k].name : k \in 1..Len(passed) }

(***************************************************************************)
(* C7                                                                      *)
(***************************************************************************)

ConfigError ==
  \/ Len(args) # 1
  \/ options.version = ""
  \/ options.has_src_dir /\ Kind(options.src_dir) = "absent"

\* C7: on a configuration error main returns at once, with the output
\* unopened, xz not started and no entry visited; when the run is over, the
\* exit status is non-zero if there is a configuration error or xz exited
\* non-zero, and main returns 0 if neither holds and the run completes.
C7_ExitStatus ==
  /\ ConfigError =>
       /\ pc \in {"start", "done"}
       /\ ~tarball_open /\ ~xz_started
       /\ visited = <<>> /\ members = <<>> /\ reads = 0
  /\ (pc \in {"done", "raised"} /\ (ConfigError \/ xz_exit > 0)) => ExitStatus > 0
  /\ (pc = "done" /\ ~ConfigError /\ xz_exit <= 0) => ret = 0 /\ xz_exit = 0

\* main has returned 1 for a source directory that does not exist, the
\* other arguments being in order
C7_Witness ==
  /\ pc = "done"
  /\ ret = 1
  /\ Len(args) = 1
  /\ options.version # ""
  /\ options.has_src_dir
  /\ Kind(options.src_dir) = "absent"

(***************************************************************************)
(* C8                                                                      *)
(***************************************************************************)

TestDirName(d) == options.src_dir \o "/" \o d

IsPresentTestDir(d) == Kind(TestDirName(d)) \in {"dir", "link_dir"}

IsAbsentTestDir(d) == ~IsPresentTestDir(d)

IsNotice(line) == EndsWith(line, " not present; skipping.")

\* the root name of the archive: --basename, or the last component of the
\* output name
RootName ==
  IF options.basename # "" THEN options.basename
  ELSE Components(args[1])[Len(Components(args[1]))]

\* C8: in test-data-only mode only entries at or beneath a Test Data
\* Directory are visited; once the traversal is over, main has passed the
\* present Test Data Directories to the archive, each once, in list order,
\* under <basename>/<directory>, and has printed one notice per absent
\* directory, in list order; and main returns 0 if xz exits 0.
C8_TestDataMode ==
  options.test_data =>
    /\ \A name \in VisitedNames :
          \E d \in TestDirSet :
             name = TestDirName(d) \/ StartsWith(name, TestDirName(d) \o "/")
    /\ TraversalComplete =>
         LET present == SelectSeq(TEST_DIRS, IsPresentTestDir)
             absent == SelectSeq(TEST_DIRS, IsAbsentTestDir)
         IN  /\ passed = [i \in 1..Len(present) |->
                            [name |-> TestDirName(present[i]),
                             arcname |-> RootName \o "/" \o present[i]]]
             /\ SelectSeq(stdout, IsNotice) =
                  [i \in 1..Len(absent) |->
                     "\"" \o TestDirName(absent[i]) \o "\" not present; skipping."]
    /\ (pc = "done" /\ xz_exit = 0) => ret = 0

\* a test-data run has returned 0 with courgette/testdata absent and
\* chrome/test/data the only directory passed to the archive
C8_Witness ==
  /\ options.test_data
  /\ pc = "done"
  /\ ret = 0
  /\ Kind("/src/courgette/testdata") = "absent"
  /\ Len(passed) = 1
  /\ Written("/src/chrome/test/data/webui")

(***************************************************************************)
(* C9                                                                      *)
(***************************************************************************)

\* C9 as stated: a visited entry named .svn or out that is no broken link is
\* dropped when no component of its parent path is named node_modules, and
\* is not dropped by this rule (so is written, size reduction being off)
\* when one is.
C9_ExemptOnlyByComponent ==
  \A name \in VisitedNames :
     (BaseOf(name) \in {".svn", "out"} /\ ~BrokenLink(name)) =>
        IF HasComponent(ParentOf(name), "node_modules")
        THEN ~SizeReduction => Written(name)
        ELSE ~Written(name)

(***************************************************************************)
(* C10                                                                     *)
(***************************************************************************)

EarlierRuleDrops(name) ==
  BrokenLink(name) \/ DroppedInEveryMode(name) \/ Contains(name, "ChangeLog")

RealDirUnderListed(name) ==
  /\ Kind(name) = "dir"
  /\ AtOrBeneath(RelOf(name), nonessential_dirs \cup TestDirSet)

EntriesIn(name) ==
  { n \in DOMAIN fs : Kind(n) # "absent" /\ n # options.src_dir /\ ParentOf(n) = name }

Pending(name) == \E k \in 1..Len(stack) : stack[k].name = name

\* name and the directories above it, up to the source root
SelfAndAncestors(name) ==
  { n \in DOMAIN fs : n = name \/ StartsWith(name, n \o "/") }

\* C10: in size-reduction mode a visited real directory at or beneath a
\* Nonessential or Test Data Directory that no earlier rule drops is written
\* to the archive and each of its entries is visited; after a full-tree run
\* every such directory that the earlier rules drop neither itself nor
\* through a directory above it is in the archive.
C10_DirectoriesKept ==
  SizeReduction =>
    /\ \A name \in VisitedNames :
          (RealDirUnderListed(name) /\ ~EarlierRuleDrops(name)) =>
             /\ Written(name)
             /\ pc # "raised" =>
                  \A n \in EntriesIn(name) : n \in VisitedNames \/ Pending(n)
    /\ (TraversalComplete /\ ~options.test_data) =>
          \A name \in DOMAIN fs :
             /\ RealDirUnderListed(name)
             /\ \A n \in SelfAndAncestors(name) : ~EarlierRuleDrops(n)
             => Written(name)

\* a full-tree size-reduction run has ended with the directory
\* third_party/blink/web_tests/sub in the archive and its only file dropped
C10_Witness ==
  /\ SizeReduction
  /\ ~options.test_data
  /\ pc = "done"
  /\ Written("/src/third_party/blink/web_tests/sub")
  /\ "/src/third_party/blink/web_tests/sub/t.txt" \in VisitedNames
  /\ ~Written("/src/third_party/blink/web_tests/sub/t.txt")

====
